---- MODULE Spec2Model ----
(***************************************************************************)
(* A model of codify-plugin-test: the response correlator                  *)
(* (CodifyTestUtils.sendMessageAndAwaitResponse), the PluginTester         *)
(* constructor with its sudo relay (handleSudoRequests, sudoSpawn) and the *)
(* composite operations fullTest and uninstall.                            *)
(*                                                                         *)
(* The harness runs on one JavaScript thread.  Every action below is one   *)
(* run-to-completion piece of that thread: a synchronous call, the         *)
(* dispatch of one inbound 'message' event to every registered listener,   *)
(* one event of a spawned sudo process, or the continuation of an async    *)
(* function after the promise it awaits has settled.                       *)
(***************************************************************************)
EXTENDS Integers, Sequences, FiniteSets, TLC

(***************************************************************************)
(* Bounds of the model.                                                    *)
(***************************************************************************)
MaxEvents == 5     \* requests, 'message' events and sudo process events
MaxNoise == 1      \* unsolicited messages during one composite operation

(***************************************************************************)
(* Values.  A command name is a sequence of string fragments, so that      *)
(* cmd + '_Response' is a real concatenation.  A payload is a record that  *)
(* carries its JavaScript type.                                            *)
(***************************************************************************)
SUCCESS == "success"
ERROR == "error"

SUDO_REQUEST == <<"sudoRequest">>

ResponseName(cmd) == cmd \o <<"_Response">>

Str(s) == [t |-> "string", v |-> s]
Num(n) == [t |-> "number", n |-> n]
Obj(o) == [t |-> "object", o |-> o]
Undefined == [t |-> "undefined"]

\* an array or object held by reference: ref names the object, o its content
Arr(ref, o) == [t |-> "object", ref |-> ref, o |-> o]

\* a === b: two objects are equal when they are the same object, anything
\* else when type and value agree
StrictEquals(a, b) ==
  IF a.t = "object" /\ b.t = "object" THEN a.ref = b.ref ELSE a = b

\* a value that crossed the channel was serialised and parsed again: what
\* arrives has the same content and is a new object
Transfer(config) ==
  [k \in DOMAIN config |->
     IF config[k].t = "object" THEN [config[k] EXCEPT !.ref = "received"]
     ELSE config[k]]

\* String(value) of JavaScript
String(d) ==
  CASE "t" \notin DOMAIN d -> "[object Object]"
    [] d.t = "string" -> d.v
    [] d.t = "number" -> ToString(d.n)
    [] d.t = "undefined" -> "undefined"
    [] OTHER -> "[object Object]"

\* new Error(message)
Error(message) == [t |-> "Error", message |-> message]

\* ajv.compile(IpcMessageSchema): cmd and data are required, status is
\* optional and one of the two MessageStatus values, nothing else is allowed
ipcMessageValidator(m) ==
  /\ {"cmd", "data"} \subseteq DOMAIN m
  /\ DOMAIN m \subseteq {"cmd", "status", "data"}
  /\ ("status" \in DOMAIN m => m.status \in {SUCCESS, ERROR})

\* ajv.compile(SudoRequestDataSchema): an object with a command
sudoRequestValidator(data) ==
  /\ "command" \in DOMAIN data
  /\ DOMAIN data \subseteq {"command", "options"}

\* path.isAbsolute (POSIX): the first character is a slash
isAbsolute(pluginPath) == Len(pluginPath) > 0 /\ pluginPath[1] = "/"


(***************************************************************************)
(* State.                                                                  *)
(***************************************************************************)
VARIABLES
  tester,     \* new PluginTester(pluginPath): "none" before, then "ok" or "failed"
  connected,  \* the worker runs and its channel is open
  killed,     \* kill() was called
  listeners,  \* the 'message' listeners of childProcess, in registration order
  calls,      \* the promises of sendMessageAndAwaitResponse, in call order
  sent,       \* the invocations of process.send, in order
  inbound,    \* the 'message' events emitted so far, in arrival order
  sudoProcs,  \* the processes spawned by sudoSpawn
  uncaught,   \* errors thrown out of a listener or emitted with no handler
  unhandled,  \* rejections of the promise of the (async) relay listener
  run         \* the composite operation (fullTest, uninstall) in progress

vars == <<tester, connected, killed, listeners, calls, sent, inbound,
          sudoProcs, uncaught, unhandled, run>>

\* The part of the state that the listeners and process.send work on
Heap ==
  [connected |-> connected, listeners |-> listeners, calls |-> calls,
   sent |-> sent, inbound |-> inbound, sudoProcs |-> sudoProcs,
   uncaught |-> uncaught, unhandled |-> unhandled]

Store(h) ==
  /\ listeners' = h.listeners
  /\ calls' = h.calls
  /\ sent' = h.sent
  /\ inbound' = h.inbound
  /\ sudoProcs' = h.sudoProcs
  /\ uncaught' = h.uncaught
  /\ unhandled' = h.unhandled

RelayListener == [kind |-> "relay", call |-> 0]
CorrelatorListener(id) == [kind |-> "correlator", call |-> id]

Status(m) == IF "status" \in DOMAIN m THEN m.status ELSE "undefined"

(***************************************************************************)
(* resolve and reject of a promise: the first one settles it, a later one  *)
(* does nothing.                                                           *)
(***************************************************************************)
\* a resolve that settles a settled promise again
Resolve_Again(c, value) == [c EXCEPT !.state = "resolved", !.value = value]

Resolve(c, value) ==
  IF c.state = "pending" THEN [c EXCEPT !.state = "resolved", !.value = value]
  ELSE c

Reject(c, error) ==
  IF c.state = "pending" THEN [c EXCEPT !.state = "rejected", !.value = error]
  ELSE c

(***************************************************************************)
(* The listener of one sendMessageAndAwaitResponse call, for a message     *)
(* that passed the validator.                                              *)
(***************************************************************************)
\* a listener that forgets to compare the command
OnResponse_AnyCommand(c, response) ==
  IF Status(response) = SUCCESS
  THEN Resolve(c, response.data)
  ELSE Reject(c, Error(String(response.data)))

\* a listener that rejects with the raw payload
OnResponse_RawReason(c, response) ==
  IF response.cmd = ResponseName(c.cmd)
  THEN IF Status(response) = SUCCESS
       THEN Resolve(c, response.data)
       ELSE Reject(c, response.data)
  ELSE c

OnResponse(c, response) ==
  IF response.cmd = ResponseName(c.cmd)
  THEN IF Status(response) = SUCCESS
       THEN Resolve(c, response.data)
       ELSE Reject(c, Error(String(response.data)))
  ELSE c

(***************************************************************************)
(* sudoSpawn(cmd, opts), up to the spawn: the command line and the options *)
(* handed to child_process.spawn.                                          *)
(***************************************************************************)
NoOptions == [k \in {} |-> ""]

SpawnOptions(opts) ==
  [k \in DOMAIN opts \cup {"shell", "stdio"} |->
     IF k = "shell" THEN "zsh"
     ELSE IF k = "stdio" THEN "ignore,pipe,pipe"
     ELSE opts[k]]

\* opts is the argument, options what spawn is called with; exit holds the
\* code of the 'close' event once the process has closed, failed says that
\* the process did not start
sudoSpawn(cmd, opts) ==
  [line |-> <<"source ~/.zshrc; ", "sudo ">> \o cmd,
   opts |-> opts,
   options |-> SpawnOptions(opts),
   output |-> <<>>,
   closed |-> FALSE,
   exit |-> <<>>,
   failed |-> FALSE]

(***************************************************************************)
(* The relay listener (an async function: what it throws rejects its own   *)
(* promise and does not stop the dispatch).                                *)
(***************************************************************************)
\* a relay that waits for the pending requests before it serves
OnSudoRequest_WhenIdle(h, message) ==
  IF ~ipcMessageValidator(message)
  THEN [h EXCEPT !.unhandled = @ + 1]
  ELSE IF /\ message.cmd = SUDO_REQUEST
          /\ \A i \in DOMAIN h.calls : h.calls[i].state # "pending"
       THEN IF ~sudoRequestValidator(message.data)
            THEN [h EXCEPT !.unhandled = @ + 1]
            ELSE [h EXCEPT !.sudoProcs = Append(@,
                    sudoSpawn(message.data.command,
                              IF "options" \in DOMAIN message.data
                              THEN message.data.options ELSE NoOptions))]
       ELSE h

OnSudoRequest(h, message) ==
  IF ~ipcMessageValidator(message)
  THEN [h EXCEPT !.unhandled = @ + 1]
  ELSE IF message.cmd = SUDO_REQUEST
       THEN IF ~sudoRequestValidator(message.data)
            THEN [h EXCEPT !.unhandled = @ + 1]
            ELSE [h EXCEPT !.sudoProcs = Append(@,
                    sudoSpawn(message.data.command,
                              IF "options" \in DOMAIN message.data
                              THEN message.data.options ELSE NoOptions))]
       ELSE h

(***************************************************************************)
(* emit('message', m): the listeners run in registration order; a listener *)
(* that throws ends the dispatch, the later listeners do not run.          *)
(***************************************************************************)
RECURSIVE Dispatch(_, _, _)
Dispatch(h, i, m) ==
  IF i > Len(h.listeners) THEN h
  ELSE LET l == h.listeners[i] IN
       IF l.kind = "relay"
       THEN Dispatch(OnSudoRequest(h, m), i + 1, m)
       ELSE IF ~ipcMessageValidator(m)
            THEN [h EXCEPT !.uncaught = @ + 1]
            ELSE Dispatch([h EXCEPT !.calls[l.call] = OnResponse(@, m)],
                          i + 1, m)

Emit(h, m) == Dispatch([h EXCEPT !.inbound = Append(@, m)], 1, m)

(***************************************************************************)
(* CodifyTestUtils.sendMessageAndAwaitResponse(process, message): the      *)
(* promise is created, the listener registered, then the message sent.     *)
(***************************************************************************)
(***************************************************************************)
(* process.send(message): the invocation is recorded with the number of    *)
(* messages received and of listeners registered at that moment; on a      *)
(* closed channel nothing is delivered and an 'error' event that nobody    *)
(* handles is emitted.  reply is what the channel emits while send runs:   *)
(* <<>> for a real channel, <<m>> for a process that answers at once.     *)
(***************************************************************************)
EmitAll(h, reply) ==
  IF reply = <<>> \/ ~h.connected THEN h ELSE Emit(h, reply[1])

ProcessSend(h, message, by, reply) ==
  EmitAll([h EXCEPT !.sent = Append(@, [msg |-> message, by |-> by,
                                         delivered |-> h.connected,
                                         at |-> Len(h.inbound),
                                         nlisteners |-> Len(h.listeners),
                                         answered |->
                                           h.connected /\ reply # <<>>]),
                    !.uncaught = IF h.connected THEN @ ELSE @ + 1],
          reply)

NewCall(h, message) ==
  [cmd |-> message.cmd, data |-> message.data, state |-> "pending",
   value |-> Undefined, issuedAt |-> Len(h.inbound)]

\* the message sent before the listener is registered
sendMessageAndAwaitResponse_SendFirst(h, message, reply) ==
  LET id == Len(h.calls) + 1
      h1 == [h EXCEPT !.calls = Append(@, NewCall(h, message))]
      h2 == ProcessSend(h1, message, id, reply)
  IN [h2 EXCEPT !.listeners = Append(@, CorrelatorListener(id))]

\* the message sent once more after the send
sendMessageAndAwaitResponse_SendTwice(h, message, reply) ==
  LET id == Len(h.calls) + 1
      h1 == [h EXCEPT !.calls = Append(@, NewCall(h, message)),
                      !.listeners = Append(@, CorrelatorListener(id))]
  IN ProcessSend(ProcessSend(h1, message, id, reply), message, id, <<>>)

sendMessageAndAwaitResponse(h, message, reply) ==
  LET id == Len(h.calls) + 1
      h1 == [h EXCEPT !.calls = Append(@, NewCall(h, message)),
                      !.listeners = Append(@, CorrelatorListener(id))]
  IN ProcessSend(h1, message, id, reply)

(***************************************************************************)
(* new PluginTester(pluginPath): the path check, fork, handleSudoRequests. *)
(***************************************************************************)
handleSudoRequests(ls) == Append(ls, RelayListener)

\* a constructor that forks before it checks the path
PluginTesterNew_ForkFirst(pluginPath) ==
  IF ~isAbsolute(pluginPath)
  THEN [tester |-> "failed", connected |-> TRUE, listeners |-> <<>>]
  ELSE [tester |-> "ok", connected |-> TRUE,
        listeners |-> handleSudoRequests(<<>>)]

\* a constructor that leaves the relay to be installed later
PluginTesterNew_NoRelay(pluginPath) ==
  IF ~isAbsolute(pluginPath)
  THEN [tester |-> "failed", connected |-> FALSE, listeners |-> <<>>]
  ELSE [tester |-> "ok", connected |-> TRUE, listeners |-> <<>>]

PluginTesterNew(pluginPath) ==
  IF ~isAbsolute(pluginPath)
  THEN [tester |-> "failed", connected |-> FALSE, listeners |-> <<>>]
  ELSE [tester |-> "ok", connected |-> TRUE,
        listeners |-> handleSudoRequests(<<>>)]

(***************************************************************************)
(* The values the caller and the worker choose from.                       *)
(***************************************************************************)
PluginPaths == {<<"/", "plugin.ts">>, <<".", "/", "plugin.ts">>,
                <<"plugin.ts">>, <<>>}

RequestData == {Obj("a")}

\* the answers of the worker to a request: status and data
Answers == {<<SUCCESS, Num(10)>>, <<ERROR, Num(10)>>}

Response(cmd, status, data) ==
  [cmd |-> ResponseName(cmd), status |-> status, data |-> data]

\* the answers a process whose send answers at once can give to a request
Replies(cmd) ==
  {<<>>} \cup {<<Response(cmd, a[1], a[2])>> : a \in Answers}

SudoRequests ==
  {[cmd |-> SUDO_REQUEST,
    data |-> [command |-> <<"echo ok">>, options |-> [cwd |-> "/tmp"]]]}

OtherMessages ==
  {[cmd |-> <<"randomMessage1">>, status |-> SUCCESS,
    data |-> Str("message1")]}

InvalidMessages ==
  {[cmd |-> <<"plan", "_Response">>, status |-> "bogus",
    data |-> Str("data")]}

\* the commands the worker answers: those requested so far
AnsweredCmds == {calls[i].cmd : i \in DOMAIN calls}

WorkerMessages ==
  {Response(c, a[1], a[2]) : c \in AnsweredCmds, a \in Answers}
  \cup SudoRequests \cup OtherMessages \cup InvalidMessages

Chunks == {<<"ok">>, <<"not permitted">>}

RECURSIVE Join(_)
\* output.join('')
Join(output) ==
  IF output = <<>> THEN <<>> ELSE Head(output) \o Join(Tail(output))

(***************************************************************************)
(* The events of a behaviour so far: the requests, the 'message' events    *)
(* and the 'data' and 'close' events of the sudo processes.                *)
(***************************************************************************)
RECURSIVE SudoEvents(_)
SudoEvents(procs) ==
  IF procs = <<>> THEN 0
  ELSE Len(Head(procs).output) + (IF Head(procs).closed THEN 1 ELSE 0)
       + (IF Head(procs).failed THEN 1 ELSE 0)
       + SudoEvents(Tail(procs))

Events == Len(calls) + Len(inbound) + SudoEvents(sudoProcs)

(***************************************************************************)
(* Actions of the caller.                                                  *)
(***************************************************************************)
Idle ==
  [pc |-> "idle", op |-> "none", outcome |-> "none", error |-> Undefined,
   configs |-> <<>>, options |-> Undefined, await |-> 0, i |-> 0,
   plans |-> <<>>, validationPlans |-> <<>>, importResults |-> <<>>,
   unsuccessfulImports |-> <<>>, uConfigs |-> <<>>, uPlans |-> <<>>,
   callbacks |-> <<>>]

Construct(pluginPath) ==
  /\ tester.status = "none"
  /\ LET t == PluginTesterNew(pluginPath) IN
       /\ tester' = [status |-> t.tester, pluginPath |-> pluginPath]
       /\ connected' = t.connected
       /\ listeners' = t.listeners
  /\ UNCHANGED <<killed, calls, sent, inbound, sudoProcs, uncaught,
                 unhandled, run>>

\* The five requests of PluginTester
EmptyObject == Obj("{}")

initialize(h, reply) ==
  sendMessageAndAwaitResponse(h, [cmd |-> <<"initialize">>,
                                  data |-> EmptyObject], reply)

validate(h, data, reply) ==
  sendMessageAndAwaitResponse(h, [cmd |-> <<"validate">>, data |-> data],
                              reply)

plan(h, data, reply) ==
  sendMessageAndAwaitResponse(h, [cmd |-> <<"plan">>, data |-> data], reply)

apply(h, data, reply) ==
  sendMessageAndAwaitResponse(h, [cmd |-> <<"apply">>, data |-> data], reply)

import(h, data, reply) ==
  sendMessageAndAwaitResponse(h, [cmd |-> <<"import">>, data |-> data],
                              reply)

\* a request made by the caller itself, outside a composite operation
CanRequest(reply) ==
  /\ tester.status = "ok"
  /\ run = Idle
  /\ Events + 1 + Len(reply) <= MaxEvents

Initialize ==
  \E reply \in Replies(<<"initialize">>) :
    /\ CanRequest(reply)
    /\ Store(initialize(Heap, reply))
    /\ UNCHANGED <<tester, connected, killed, run>>

Validate ==
  \E data \in RequestData, reply \in Replies(<<"validate">>) :
    /\ CanRequest(reply)
    /\ Store(validate(Heap, data, reply))
    /\ UNCHANGED <<tester, connected, killed, run>>

Plan ==
  \E data \in RequestData, reply \in Replies(<<"plan">>) :
    /\ CanRequest(reply)
    /\ Store(plan(Heap, data, reply))
    /\ UNCHANGED <<tester, connected, killed, run>>

Apply ==
  \E data \in RequestData, reply \in Replies(<<"apply">>) :
    /\ CanRequest(reply)
    /\ Store(apply(Heap, data, reply))
    /\ UNCHANGED <<tester, connected, killed, run>>

Import ==
  \E data \in RequestData, reply \in Replies(<<"import">>) :
    /\ CanRequest(reply)
    /\ Store(import(Heap, data, reply))
    /\ UNCHANGED <<tester, connected, killed, run>>

Kill ==
  /\ tester.status = "ok"
  /\ ~killed
  /\ killed' = TRUE
  /\ UNCHANGED <<tester, connected, listeners, calls, sent, inbound,
                 sudoProcs, uncaught, unhandled, run>>

(***************************************************************************)
(* Actions of the worker and of the spawned sudo processes.                *)
(***************************************************************************)
WorkerEmit(m) ==
  /\ connected
  /\ Events < MaxEvents
  /\ Store(Emit(Heap, m))
  /\ UNCHANGED <<tester, connected, killed, run>>

WorkerExit ==
  /\ connected
  /\ killed
  /\ connected' = FALSE
  /\ UNCHANGED <<tester, killed, listeners, calls, sent, inbound, sudoProcs,
                 uncaught, unhandled, run>>

\* stdout.on('data') and stderr.on('data') of one sudo process
SudoData(p, chunk) ==
  /\ p \in DOMAIN sudoProcs
  /\ ~sudoProcs[p].closed
  /\ ~sudoProcs[p].failed
  /\ Events < MaxEvents
  /\ sudoProcs' = [sudoProcs EXCEPT ![p].output = Append(@, chunk)]
  /\ UNCHANGED <<tester, connected, killed, listeners, calls, sent, inbound,
                 uncaught, unhandled, run>>

\* a result that keeps the output of a successful command only
SudoResult_SuccessOnly(proc, code) ==
  [data |-> IF code = 0 THEN Join(proc.output) ELSE <<>>,
   status |-> IF code = 0 THEN SUCCESS ELSE ERROR]

SudoResult(proc, code) ==
  [data |-> Join(proc.output),
   status |-> IF code = 0 THEN SUCCESS ELSE ERROR]

\* _process.on('close'): sudoSpawn resolves and the relay listener, resumed,
\* sends the result to the worker
SudoClose(p, code) ==
  /\ p \in DOMAIN sudoProcs
  /\ ~sudoProcs[p].closed
  /\ ~sudoProcs[p].failed
  /\ Events < MaxEvents
  /\ LET h == [Heap EXCEPT !.sudoProcs[p].closed = TRUE,
                           !.sudoProcs[p].exit = <<code>>] IN
       Store(ProcessSend(h, [cmd |-> ResponseName(SUDO_REQUEST),
                             data |-> SudoResult(sudoProcs[p], code)],
                         -p, <<>>))
  /\ UNCHANGED <<tester, connected, killed, run>>

\* the 'error' event of a process that could not be started (the shell or
\* the working directory does not exist): _process has no 'error' listener,
\* so emit throws; 'close' is not emitted after it and the promise of
\* sudoSpawn stays pending
SudoError(p) ==
  /\ p \in DOMAIN sudoProcs
  /\ ~sudoProcs[p].closed
  /\ ~sudoProcs[p].failed
  /\ sudoProcs[p].output = <<>>
  /\ Events < MaxEvents
  /\ sudoProcs' = [sudoProcs EXCEPT ![p].failed = TRUE]
  /\ uncaught' = uncaught + 1
  /\ UNCHANGED <<tester, connected, killed, listeners, calls, sent, inbound,
                 unhandled, run>>

Init ==
  /\ tester = [status |-> "none", pluginPath |-> <<>>]
  /\ connected = FALSE
  /\ killed = FALSE
  /\ listeners = <<>>
  /\ calls = <<>>
  /\ sent = <<>>
  /\ inbound = <<>>
  /\ sudoProcs = <<>>
  /\ uncaught = 0
  /\ unhandled = 0
  /\ run = Idle

Next ==
  \/ \E pluginPath \in PluginPaths : Construct(pluginPath)
  \/ Initialize
  \/ Validate
  \/ Plan
  \/ Apply
  \/ Import
  \/ \E m \in WorkerMessages : WorkerEmit(m)
  \/ \E p \in DOMAIN sudoProcs, chunk \in Chunks : SudoData(p, chunk)
  \/ \E p \in DOMAIN sudoProcs, code \in {0, 1} : SudoClose(p, code)

Spec == Init /\ [][Next]_vars

(***************************************************************************)
(* fullTest and uninstall.  An async function runs until its next await;   *)
(* run.pc names the await it is suspended at, run.await the call awaited.  *)
(* Each operator below is the code from one point of the function up to    *)
(* the next await, the return or the throw.                                *)
(***************************************************************************)
NOOP == "noop"
CREATE == "create"
DESTROY == "destroy"

\* new Error(text + JSON.stringify(value))
ErrorWith(text, value) == [t |-> "Error", message |-> text, json |-> value]

RECURSIVE toReversed(_)
toReversed(configs) ==
  IF configs = <<>> THEN <<>>
  ELSE Append(toReversed(Tail(configs)), Head(configs))

Return(h, r) ==
  [h |-> h, run |-> [r EXCEPT !.pc = "done", !.outcome = "resolved"]]

Throw(h, r, e) ==
  [h |-> h,
   run |-> [r EXCEPT !.pc = "done", !.outcome = "rejected", !.error = e]]

\* await of the request just sent in h
AwaitCall(h, r, pc) ==
  [h |-> h, run |-> [r EXCEPT !.pc = pc, !.await = Len(h.calls)]]

\* await options.<name>(args)
AwaitCallback(h, r, name, args) ==
  [h |-> h,
   run |-> [r EXCEPT !.pc = name,
                     !.callbacks = Append(@, [name |-> name, args |-> args,
                                              state |-> "pending"])]]

\* uninstall, lines 196-198
ValidateDestroyStage(h, r) ==
  IF r.options.validateDestroy
  THEN AwaitCallback(h, r, "validateDestroy", r.uPlans)
  ELSE Return(h, r)

\* uninstall, lines 182-194: the loop of the verification plans
UVerifyLoop(h, r) ==
  IF r.i < Len(r.uConfigs)
  THEN AwaitCall(plan(h, [desired |-> r.uConfigs[r.i + 1],
                          isStateful |-> TRUE, state |-> Undefined], <<>>),
                 [r EXCEPT !.i = @ + 1], "uVerify")
  ELSE ValidateDestroyStage(h, r)

\* a verification that accepts whatever the plan says
AfterUVerify_NoCheck(h, r, validationPlan) == UVerifyLoop(h, r)

AfterUVerify(h, r, validationPlan) ==
  IF validationPlan.operation # CREATE
  THEN Throw(h, r, ErrorWith("Resource was not successfully destroyed.",
                             validationPlan))
  ELSE UVerifyLoop(h, r)

\* a loop that applies whatever the plan says
UApplyLoop_NoCheck(h, r) ==
  IF r.i < Len(r.uPlans)
  THEN AwaitCall(apply(h, [planId |-> r.uPlans[r.i + 1].planId], <<>>),
                 [r EXCEPT !.i = @ + 1], "uApply")
  ELSE UVerifyLoop(h, [r EXCEPT !.i = 0])

\* uninstall, lines 171-179: the loop of the applies
UApplyLoop(h, r) ==
  IF r.i < Len(r.uPlans)
  THEN IF r.uPlans[r.i + 1].operation # DESTROY
       THEN Throw(h, r, ErrorWith("Expect resource operation to be 'destory'",
                                  r.uPlans[r.i + 1]))
       ELSE AwaitCall(apply(h, [planId |-> r.uPlans[r.i + 1].planId], <<>>),
                      [r EXCEPT !.i = @ + 1], "uApply")
  ELSE UVerifyLoop(h, [r EXCEPT !.i = 0])

\* uninstall, lines 163-169: the loop of the destroy plans
UPlanLoop(h, r) ==
  IF Len(r.uPlans) < Len(r.uConfigs)
  THEN AwaitCall(plan(h, [desired |-> Undefined, isStateful |-> TRUE,
                          state |-> r.uConfigs[Len(r.uPlans) + 1]], <<>>),
                 r, "uPlan")
  ELSE UApplyLoop(h, [r EXCEPT !.i = 0])

uninstall(h, r, configs) ==
  UPlanLoop(h, [r EXCEPT !.uConfigs = configs, !.uPlans = <<>>])

\* an uninstall of the configs in input order
UninstallStage_InOrder(h, r) ==
  IF ~r.options.skipUninstall
  THEN uninstall(h, r, r.configs)
  ELSE Return(h, r)

\* fullTest, lines 153-155
UninstallStage(h, r) ==
  IF ~r.options.skipUninstall
  THEN uninstall(h, r, toReversed(r.configs))
  ELSE Return(h, r)

\* fullTest, lines 144-151
ValidateImportStage(h, r) ==
  IF r.unsuccessfulImports # <<>>
  THEN Throw(h, r, ErrorWith("The following imports were not successful.",
                             r.unsuccessfulImports))
  ELSE IF r.options.validateImport
       THEN AwaitCallback(h, r, "validateImport",
                          [k \in DOMAIN r.importResults |->
                             r.importResults[k].result[1]])
       ELSE UninstallStage(h, r)

\* fullTest, lines 137-139
ImportDiffers(config, importResult) ==
  \/ Len(importResult.result) # 1
  \/ \E k \in DOMAIN config :
       \/ k \notin DOMAIN importResult.result[1]
       \/ ~StrictEquals(importResult.result[1][k], config[k])

\* fullTest, lines 133-142: the loop of the imports
ImportLoop(h, r) ==
  IF Len(r.importResults) < Len(r.configs)
  THEN AwaitCall(import(h, [config |-> r.configs[Len(r.importResults) + 1]],
                        <<>>),
                 r, "import")
  ELSE ValidateImportStage(h, r)

AfterImport(h, r, importResult) ==
  LET config == r.configs[Len(r.importResults) + 1] IN
    ImportLoop(h, [r EXCEPT
      !.importResults = Append(@, importResult),
      !.unsuccessfulImports =
         IF ImportDiffers(config, importResult)
         THEN Append(@, importResult) ELSE @])

\* fullTest, lines 120-129
IsNotNoop(p) == p.operation # NOOP

\* a check that reports the first plan that is not a no-op only
ValidateApplyStage_FirstOnly(h, r) ==
  LET unsuccessfulPlans == SelectSeq(r.validationPlans, IsNotNoop) IN
    IF unsuccessfulPlans # <<>>
    THEN Throw(h, r, ErrorWith("The following applies were not successful.",
                               <<Head(unsuccessfulPlans)>>))
    ELSE IF r.options.validateApply
         THEN AwaitCallback(h, r, "validateApply", r.plans)
         ELSE ImportLoop(h, r)

ValidateApplyStage(h, r) ==
  LET unsuccessfulPlans == SelectSeq(r.validationPlans, IsNotNoop) IN
    IF unsuccessfulPlans # <<>>
    THEN Throw(h, r, ErrorWith("The following applies were not successful.",
                               unsuccessfulPlans))
    ELSE IF r.options.validateApply
         THEN AwaitCallback(h, r, "validateApply", r.plans)
         ELSE ImportLoop(h, r)

\* fullTest, lines 111-118: the loop of the re-plans
ReplanLoop(h, r) ==
  IF Len(r.validationPlans) < Len(r.configs)
  THEN AwaitCall(plan(h, [desired |-> r.configs[Len(r.validationPlans) + 1],
                          isStateful |-> FALSE, state |-> Undefined], <<>>),
                 r, "replan")
  ELSE ValidateApplyStage(h, r)

\* two applies sent at once, the second one awaited
ApplyLoop_TwoAtOnce(h, r) ==
  IF r.i + 1 < Len(r.plans)
  THEN AwaitCall(apply(apply(h, [planId |-> r.plans[r.i + 1].planId], <<>>),
                       [planId |-> r.plans[r.i + 2].planId], <<>>),
                 [r EXCEPT !.i = @ + 2], "apply")
  ELSE IF r.i < Len(r.plans)
       THEN AwaitCall(apply(h, [planId |-> r.plans[r.i + 1].planId], <<>>),
                      [r EXCEPT !.i = @ + 1], "apply")
       ELSE ReplanLoop(h, r)

\* fullTest, lines 104-108: the loop of the applies
ApplyLoop(h, r) ==
  IF r.i < Len(r.plans)
  THEN AwaitCall(apply(h, [planId |-> r.plans[r.i + 1].planId], <<>>),
                 [r EXCEPT !.i = @ + 1], "apply")
  ELSE ReplanLoop(h, r)

\* a callback that is called and not awaited
ValidatePlanStage_NoAwait(h, r) ==
  IF r.options.validatePlan
  THEN ApplyLoop(h, AwaitCallback(h, r, "validatePlan", r.plans).run)
  ELSE ApplyLoop(h, [r EXCEPT !.i = 0])

\* fullTest, lines 100-102
ValidatePlanStage(h, r) ==
  IF r.options.validatePlan
  THEN AwaitCallback(h, r, "validatePlan", r.plans)
  ELSE ApplyLoop(h, [r EXCEPT !.i = 0])

\* fullTest, lines 91-98: the loop of the plans
PlanLoop(h, r) ==
  IF Len(r.plans) < Len(r.configs)
  THEN AwaitCall(plan(h, [desired |-> r.configs[Len(r.plans) + 1],
                          isStateful |-> FALSE, state |-> Undefined], <<>>),
                 r, "plan")
  ELSE ValidatePlanStage(h, r)

\* fullTest, lines 86-89
IsInvalid(v) == ~v.isValid

\* a validation whose result is not looked at
AfterValidate_NoCheck(h, r, validateResult) == PlanLoop(h, r)

AfterValidate(h, r, validateResult) ==
  LET invalidConfigs ==
        SelectSeq(validateResult.resourceValidations, IsInvalid) IN
    IF invalidConfigs # <<>>
    THEN Throw(h, r, ErrorWith("The following configs did not validate:",
                               invalidConfigs))
    ELSE PlanLoop(h, r)

\* a check of the first config only
AfterInitialize_FirstOnly(h, r, initializeResult) ==
  LET Unsupported(c) ==
        ~\E k \in DOMAIN initializeResult.resourceDefinitions :
            initializeResult.resourceDefinitions[k].type = c.type
      unsupportedConfigs == SelectSeq(SubSeq(r.configs, 1, 1), Unsupported) IN
    IF unsupportedConfigs # <<>>
    THEN Throw(h, r, ErrorWith("The plugin does not support the following configs supplied:",
                               unsupportedConfigs))
    ELSE AwaitCall(validate(h, [configs |-> r.configs], <<>>), r, "validate")

\* fullTest, lines 77-84
AfterInitialize(h, r, initializeResult) ==
  LET Unsupported(c) ==
        ~\E k \in DOMAIN initializeResult.resourceDefinitions :
            initializeResult.resourceDefinitions[k].type = c.type
      unsupportedConfigs == SelectSeq(r.configs, Unsupported) IN
    IF unsupportedConfigs # <<>>
    THEN Throw(h, r, ErrorWith("The plugin does not support the following configs supplied:",
                               unsupportedConfigs))
    ELSE AwaitCall(validate(h, [configs |-> r.configs], <<>>), r, "validate")

\* fullTest, line 75, and the entry of uninstall
fullTest(h, configs, options) ==
  AwaitCall(initialize(h, <<>>),
            [Idle EXCEPT !.op = "fullTest", !.outcome = "pending",
                         !.configs = configs, !.options = options],
            "initialize")

uninstallCall(h, configs, options) ==
  uninstall(h, [Idle EXCEPT !.op = "uninstall", !.outcome = "pending",
                            !.configs = configs, !.options = options],
            configs)

\* the function resumed after the request it awaits has settled: a rejected
\* request throws at the await
ResumeAfterCall(h, r) ==
  LET c == h.calls[r.await] IN
    IF c.state = "rejected" THEN Throw(h, r, c.value)
    ELSE CASE r.pc = "initialize" -> AfterInitialize(h, r, c.value)
           [] r.pc = "validate" -> AfterValidate(h, r, c.value)
           [] r.pc = "plan" ->
                PlanLoop(h, [r EXCEPT !.plans = Append(@, c.value)])
           [] r.pc = "apply" -> ApplyLoop(h, r)
           [] r.pc = "replan" ->
                ReplanLoop(h, [r EXCEPT
                                 !.validationPlans = Append(@, c.value)])
           [] r.pc = "import" -> AfterImport(h, r, c.value)
           [] r.pc = "uPlan" ->
                UPlanLoop(h, [r EXCEPT !.uPlans = Append(@, c.value)])
           [] r.pc = "uApply" -> UApplyLoop(h, r)
           [] r.pc = "uVerify" -> AfterUVerify(h, r, c.value)

\* the function resumed after the callback it awaits has returned
ResumeAfterCallback(h, r0) ==
  LET r == [r0 EXCEPT !.callbacks[Len(r0.callbacks)].state = "returned"] IN
    CASE r.pc = "validatePlan" -> ApplyLoop(h, [r EXCEPT !.i = 0])
      [] r.pc = "validateApply" -> ImportLoop(h, r)
      [] r.pc = "validateImport" -> UninstallStage(h, r)
      [] r.pc = "validateDestroy" -> Return(h, r)

\* an exception of a callback that is swallowed
ThrowAfterCallback_Swallowed(h, r0, e) ==
  LET r == [r0 EXCEPT !.callbacks[Len(r0.callbacks)].state = "threw"] IN
    CASE r.pc = "validatePlan" -> ApplyLoop(h, [r EXCEPT !.i = 0])
      [] r.pc = "validateApply" -> ImportLoop(h, r)
      [] r.pc = "validateImport" -> UninstallStage(h, r)
      [] r.pc = "validateDestroy" -> Return(h, r)

\* the function resumed after the callback it awaits has thrown
ThrowAfterCallback(h, r, e) ==
  Throw(h, [r EXCEPT !.callbacks[Len(r.callbacks)].state = "threw"], e)

CallPcs == {"initialize", "validate", "plan", "apply", "replan", "import",
            "uPlan", "uApply", "uVerify"}

CallbackPcs == {"validatePlan", "validateApply", "validateImport",
                "validateDestroy"}

(***************************************************************************)
(* The composite operations as actions, with a worker that answers the     *)
(* request it was sent and now and then emits a message nobody asked for.  *)
(***************************************************************************)
Config1 == [type |-> Str("test"), propA |-> Str("a")]
Config2 == [type |-> Str("test-uninstall"), propA |-> Str("b")]
Config3 == [type |-> Str("test"), dependsOn |-> Arr("caller", <<"x">>)]

ConfigLists == {<<Config1>>, <<Config1, Config2>>, <<Config3>>}

Options(skip, callbacks) ==
  [skipUninstall |-> skip, validatePlan |-> callbacks,
   validateApply |-> callbacks, validateImport |-> callbacks,
   validateDestroy |-> callbacks]

OptionSets == {Options(FALSE, FALSE), Options(TRUE, FALSE),
               Options(FALSE, TRUE)}

FullTest(configs, options) ==
  /\ tester.status = "ok"
  /\ run = Idle
  /\ LET res == fullTest(Heap, configs, options) IN
       Store(res.h) /\ run' = res.run
  /\ UNCHANGED <<tester, connected, killed>>

Uninstall(configs, options) ==
  /\ tester.status = "ok"
  /\ run = Idle
  /\ LET res == uninstallCall(Heap, configs, options) IN
       Store(res.h) /\ run' = res.run
  /\ UNCHANGED <<tester, connected, killed>>

Resume ==
  /\ run.pc \in CallPcs
  /\ calls[run.await].state # "pending"
  /\ LET res == ResumeAfterCall(Heap, run) IN
       Store(res.h) /\ run' = res.run
  /\ UNCHANGED <<tester, connected, killed>>

CallbackReturns ==
  /\ run.pc \in CallbackPcs
  /\ LET res == ResumeAfterCallback(Heap, run) IN
       Store(res.h) /\ run' = res.run
  /\ UNCHANGED <<tester, connected, killed>>

CallbackThrows ==
  /\ run.pc \in CallbackPcs
  /\ LET res == ThrowAfterCallback(Heap, run, Error("assertion failed")) IN
       Store(res.h) /\ run' = res.run
  /\ UNCHANGED <<tester, connected, killed>>

\* what the worker may answer to request c, the n-th request it received:
\* a plan of a desired config creates or does nothing, a plan of a state
\* alone destroys or does nothing
ResourceType(data) ==
  IF data.desired = Undefined THEN data.state.type ELSE data.desired.type

PlanOperations(data) ==
  IF data.desired = Undefined THEN {DESTROY, NOOP} ELSE {CREATE, NOOP}

AnswerData(c, n) ==
  CASE c.cmd = <<"initialize">> ->
         {[resourceDefinitions |-> <<[type |-> Str("test")],
                                     [type |-> Str("test-uninstall")]>>],
          [resourceDefinitions |-> <<[type |-> Str("test-uninstall")]>>],
          [resourceDefinitions |-> <<>>]}
    [] c.cmd = <<"validate">> ->
         {[resourceValidations |->
             [k \in DOMAIN c.data.configs |->
                [resourceType |-> c.data.configs[k].type,
                 isValid |-> (k > bad)]]] : bad \in {0, 1, 2}}
    [] c.cmd = <<"plan">> ->
         {[planId |-> n, operation |-> op,
           resourceType |-> ResourceType(c.data)] :
            op \in PlanOperations(c.data)}
    [] c.cmd = <<"apply">> -> {Undefined}
    [] c.cmd = <<"import">> ->
         {[result |-> <<Transfer(c.data.config)>>],
          [result |-> <<>>],
          [result |-> <<[Transfer(c.data.config) EXCEPT
                           !.type = Str("changed")]>>]}

WorkerAnswer ==
  /\ connected
  /\ run.pc \in CallPcs
  /\ calls[run.await].state = "pending"
  /\ \E m \in {Response(calls[run.await].cmd, SUCCESS, d) :
                 d \in AnswerData(calls[run.await], run.await)}
           \cup {Response(calls[run.await].cmd, ERROR,
                          Str("Prop D is included"))} :
       Store(Emit(Heap, m))
  /\ UNCHANGED <<tester, connected, killed, run>>

NoiseMessages == OtherMessages \cup InvalidMessages

Noise == Cardinality({j \in DOMAIN inbound : inbound[j] \in NoiseMessages})

WorkerNoise(m) ==
  /\ connected
  /\ run.pc \in CallPcs \cup CallbackPcs
  /\ Noise < MaxNoise
  /\ Store(Emit(Heap, m))
  /\ UNCHANGED <<tester, connected, killed, run>>

\* the state after new PluginTester('/plugin.ts')
InitConstructed ==
  LET t == PluginTesterNew(<<"/", "plugin.ts">>) IN
    /\ tester = [status |-> t.tester, pluginPath |-> <<"/", "plugin.ts">>]
    /\ connected = t.connected
    /\ killed = FALSE
    /\ listeners = t.listeners
    /\ calls = <<>>
    /\ sent = <<>>
    /\ inbound = <<>>
    /\ sudoProcs = <<>>
    /\ uncaught = 0
    /\ unhandled = 0
    /\ run = Idle

NextComposite ==
  \/ \E configs \in ConfigLists, options \in OptionSets :
       FullTest(configs, options)
  \/ \E configs \in ConfigLists, options \in OptionSets :
       Uninstall(configs, options)
  \/ Resume
  \/ CallbackReturns
  \/ CallbackThrows
  \/ WorkerAnswer
  \/ \E m \in NoiseMessages : WorkerNoise(m)

SpecComposite == InitConstructed /\ [][NextComposite]_vars

(***************************************************************************)
(* The relay alone: a worker that sends sudo requests with the options it  *)
(* likes, and the processes spawned for them.                              *)
(***************************************************************************)
SudoRequest(command, options) ==
  [cmd |-> SUDO_REQUEST, data |-> [command |-> command, options |-> options]]

SudoRequestsWithOptions ==
  {[cmd |-> SUDO_REQUEST, data |-> [command |-> <<"echo ok">>]],
   SudoRequest(<<"echo ok">>, [cwd |-> "/tmp"]),
   SudoRequest(<<"echo ok">>, [cwd |-> "/tmp", detached |-> "true"]),
   SudoRequest(<<"echo ok">>, [cwd |-> "/tmp", shell |-> "bash",
                               stdio |-> "inherit"])}

NextSudo ==
  \/ \E m \in SudoRequestsWithOptions \cup OtherMessages : WorkerEmit(m)
  \/ \E p \in DOMAIN sudoProcs, chunk \in Chunks : SudoData(p, chunk)
  \/ \E p \in DOMAIN sudoProcs, code \in {0, 1} : SudoClose(p, code)
  \/ \E p \in DOMAIN sudoProcs : SudoError(p)

SpecSudo == InitConstructed /\ [][NextSudo]_vars

(***************************************************************************)
(* The requests around kill(): the worker is sent a signal, and the        *)
(* channel closes when the worker has exited.                              *)
(***************************************************************************)
NextKill ==
  \/ Initialize
  \/ Validate
  \/ Plan
  \/ Apply
  \/ Import
  \/ Kill
  \/ WorkerExit
  \/ \E m \in WorkerMessages \ SudoRequests : WorkerEmit(m)

SpecKill == InitConstructed /\ [][NextKill]_vars

(***************************************************************************)
(* Properties of the correlator and of the constructor, checked under      *)
(* Spec.                                                                   *)
(***************************************************************************)
\* the name of the response that call c waits for
Expected(c) == c.cmd \o <<"_Response">>

\* the positions of the messages that arrived after call c was issued
After(c) == (c.issuedAt + 1)..Len(inbound)

\* message j is a response (it carries a status) correlated to call c
IsResponse(c, j) ==
  /\ inbound[j].cmd = Expected(c)
  /\ Status(inbound[j]) \in {SUCCESS, ERROR}

\* message j is the first response correlated to c since c was issued
IsFirstResponse(c, j) ==
  /\ j \in After(c)
  /\ IsResponse(c, j)
  /\ \A k \in After(c) : k < j => ~IsResponse(c, k)

\* C1: a call stays pending while only messages with another command than
\* X_Response arrive, and it is resolved with the data of the X_Response
\* SUCCESS message once that arrives, whatever number of other messages
\* came before it.
C1_IgnoresUnrelated ==
  \A i \in DOMAIN calls :
    LET c == calls[i] IN
      /\ (\A j \in After(c) : inbound[j].cmd # Expected(c))
           => c.state = "pending"
      /\ \A j \in After(c) :
           ( /\ inbound[j].cmd = Expected(c)
             /\ Status(inbound[j]) = SUCCESS
             /\ \A k \in After(c) : k < j => inbound[k].cmd # Expected(c) )
           => (c.state = "resolved" /\ c.value = inbound[j].data)

C1_Witness ==
  \E i \in DOMAIN calls :
    /\ calls[i].state = "resolved"
    /\ \E j \in After(calls[i]) :
         /\ j >= calls[i].issuedAt + 3
         /\ inbound[j].cmd = Expected(calls[i])
         /\ \A k \in After(calls[i]) :
              k < j => inbound[k].cmd # Expected(calls[i])

\* C2: the first correlated response settles the call: a SUCCESS response
\* resolves it with exactly the data, an ERROR response rejects it with an
\* error whose message is String(data); the same for initialize, validate,
\* plan, apply and import.
C2_SettlesByStatus ==
  \A i \in DOMAIN calls : \A j \in After(calls[i]) :
    IsFirstResponse(calls[i], j) =>
      IF inbound[j].status = SUCCESS
      THEN calls[i].state = "resolved" /\ calls[i].value = inbound[j].data
      ELSE /\ calls[i].state = "rejected"
           /\ calls[i].value = [t |-> "Error",
                                message |-> String(inbound[j].data)]

C2_Witness ==
  \E i \in DOMAIN calls : \E j \in After(calls[i]) :
    /\ calls[i].cmd = <<"import">>
    /\ IsFirstResponse(calls[i], j)
    /\ inbound[j].status = ERROR
    /\ inbound[j].data = Num(10)
    /\ calls[i].state = "rejected"
    /\ calls[i].value.message = "10"

\* C3: when process.send is invoked for a call, the listener of that call
\* is already registered, and a correlated response emitted during the
\* send settles the call.
C3_ListensBeforeSend ==
  \A n \in DOMAIN sent :
    sent[n].by > 0 =>
      /\ \E k \in 1..sent[n].nlisteners :
           listeners[k] = CorrelatorListener(sent[n].by)
      /\ (sent[n].answered /\ IsResponse(calls[sent[n].by], sent[n].at + 1))
           => calls[sent[n].by].state # "pending"

C3_Witness ==
  \E n \in DOMAIN sent :
    /\ sent[n].by > 0
    /\ sent[n].answered
    /\ IsResponse(calls[sent[n].by], sent[n].at + 1)
    /\ calls[sent[n].by].state = "resolved"

\* the valid SUDO_REQUEST messages among the first n inbound messages
RECURSIVE SudoRequestsUpTo(_)
SudoRequestsUpTo(n) ==
  IF n = 0 THEN 0
  ELSE SudoRequestsUpTo(n - 1)
       + (IF /\ inbound[n].cmd = SUDO_REQUEST
             /\ "command" \in DOMAIN inbound[n].data
          THEN 1 ELSE 0)

\* the SUDO_REQUEST_Response messages among what was sent
SudoResponses == {n \in DOMAIN sent : sent[n].msg.cmd = SUDO_REQUEST \o <<"_Response">>}

\* message j is a SUDO_REQUEST that arrived while call c had no response yet
SudoWhilePending(c, j) ==
  /\ j \in After(c)
  /\ inbound[j].cmd = SUDO_REQUEST
  /\ "command" \in DOMAIN inbound[j].data
  /\ \A k \in After(c) : k < j => ~IsResponse(c, k)

\* C4: a SUDO_REQUEST that arrives while a request is pending is served (a
\* process is spawned for it, and its result is sent when the process has
\* closed) and does not settle the pending call, which is settled by its
\* own response afterwards.
C4_RelayInterleaves ==
  /\ Len(sudoProcs) = SudoRequestsUpTo(Len(inbound))
  /\ Cardinality(SudoResponses)
       = Cardinality({p \in DOMAIN sudoProcs : sudoProcs[p].closed})
  /\ \A i \in DOMAIN calls : \A j \in After(calls[i]) :
       SudoWhilePending(calls[i], j) =>
         /\ (\A k \in After(calls[i]) : ~IsResponse(calls[i], k))
              => calls[i].state = "pending"
         /\ \A k \in After(calls[i]) :
              (IsFirstResponse(calls[i], k) /\ inbound[k].status = SUCCESS)
                => calls[i].state = "resolved"

C4_Witness ==
  \E i \in DOMAIN calls : \E j, k \in After(calls[i]) :
    /\ calls[i].cmd = <<"plan">>
    /\ SudoWhilePending(calls[i], j)
    /\ j < k
    /\ IsFirstResponse(calls[i], k)
    /\ calls[i].state = "resolved"
    /\ \E n \in SudoResponses : sent[n].at < k

\* C5: every call invokes process.send exactly once, with the message it
\* was given.
C5_SendsOnce ==
  \A i \in DOMAIN calls :
    /\ Cardinality({n \in DOMAIN sent : sent[n].by = i}) = 1
    /\ \A n \in DOMAIN sent :
         sent[n].by = i =>
           sent[n].msg = [cmd |-> calls[i].cmd, data |-> calls[i].data]

C5_Witness ==
  /\ Len(calls) = 2
  /\ calls[1].state = "pending"
  /\ calls[2].state = "resolved"
  /\ Cardinality({n \in DOMAIN sent : sent[n].by > 0}) = 2

\* C6: constructing a PluginTester with a path that is not absolute fails,
\* and then no worker is forked and no listener is registered.
RelativePaths == {<<".", "/", "plugin.ts">>, <<"plugin.ts">>, <<>>}

C6_RelativePathFails ==
  (tester.status # "none" /\ tester.pluginPath \in RelativePaths) =>
    /\ tester.status = "failed"
    /\ ~connected
    /\ listeners = <<>>

C6_Witness ==
  /\ tester.status = "failed"
  /\ tester.pluginPath = <<".", "/", "plugin.ts">>

\* C7: the relay listener is registered by the constructor: it is the first
\* listener whenever the worker runs, it precedes the listener of every
\* request, and every SUDO_REQUEST that arrived was handed to it.
C7_RelayFirst ==
  /\ connected => (Len(listeners) >= 1 /\ listeners[1] = RelayListener)
  /\ \A n \in DOMAIN sent : sent[n].by > 0 => sent[n].nlisteners >= 2
  /\ Len(sudoProcs) = SudoRequestsUpTo(Len(inbound))

C7_Witness ==
  /\ Len(calls) >= 1
  /\ calls[1].issuedAt >= 1
  /\ inbound[1].cmd = SUDO_REQUEST
  /\ Len(sudoProcs) = 1

(***************************************************************************)
(* Properties of fullTest and uninstall, checked under SpecComposite.      *)
(***************************************************************************)
N == Len(run.configs)

\* the SUCCESS response of request a was received before request b was sent
AnsweredBefore(a, b) ==
  \E j \in (calls[a].issuedAt + 1)..calls[b].issuedAt :
    inbound[j].cmd = Expected(calls[a]) /\ Status(inbound[j]) = SUCCESS

StatelessPlan(config) ==
  [desired |-> config, isStateful |-> FALSE, state |-> [t |-> "undefined"]]

\* C8: in fullTest the requests 3..2+n are the plans of the configs in
\* input order, each sent after the response to the one before; the first
\* apply is sent after all n plan responses and after validatePlan, called
\* once with the n plans in order, has returned; the applies follow one at
\* a time in the same order, each with the planId returned for its config.
C8_PlansThenApplies ==
  run.op = "fullTest" =>
    /\ \A k \in 1..N :
         (2 + k) \in DOMAIN calls =>
           /\ calls[2 + k].cmd = <<"plan">>
           /\ calls[2 + k].data = StatelessPlan(run.configs[k])
           /\ AnsweredBefore(2 + k - 1, 2 + k)
    /\ \A k \in 1..N :
         (2 + N + k) \in DOMAIN calls =>
           /\ calls[2 + N + k].cmd = <<"apply">>
           /\ calls[2 + N + k].data = [planId |-> calls[2 + k].value.planId]
           /\ \A p \in 1..N : AnsweredBefore(2 + p, 2 + N + k)
           /\ AnsweredBefore(2 + N + k - 1, 2 + N + k)
           /\ run.options.validatePlan =>
                /\ run.callbacks[1] =
                     [name |-> "validatePlan",
                      args |-> [p \in 1..N |-> calls[2 + p].value],
                      state |-> "returned"]
                /\ \A q \in DOMAIN run.callbacks :
                     run.callbacks[q].name = "validatePlan" => q = 1

C8_Witness ==
  /\ run.op = "fullTest"
  /\ N = 2
  /\ run.options.validatePlan
  /\ Len(calls) = 2 + 2 * N
  /\ calls[2 + 2 * N].state = "resolved"
  /\ calls[3].value.planId # calls[4].value.planId

\* C9: after the applies every config is planned again, in input order and
\* whatever the earlier re-plans said; once the n re-plans are back,
\* fullTest fails with the convergence error exactly if one of them is not
\* NOOP, the error lists all of those, and no further request is sent.
ConvergenceError ==
  /\ run.outcome = "rejected"
  /\ run.error.message = "The following applies were not successful."

Replanned(k) == calls[2 + 2 * N + k]

C9_Convergence ==
  run.op = "fullTest" =>
    /\ \A k \in 1..N :
         (2 + 2 * N + k) \in DOMAIN calls =>
           /\ Replanned(k).cmd = <<"plan">>
           /\ Replanned(k).data = StatelessPlan(run.configs[k])
           /\ AnsweredBefore(2 + 2 * N + k - 1, 2 + 2 * N + k)
    /\ \A k \in 0..(N - 1) :
         ( /\ (2 + 2 * N + k) \in DOMAIN calls
           /\ calls[2 + 2 * N + k].state = "resolved"
           /\ run.await # 2 + 2 * N + k )
         => (2 + 2 * N + k + 1) \in DOMAIN calls
    /\ ( /\ (2 + 3 * N) \in DOMAIN calls
         /\ calls[2 + 3 * N].state = "resolved"
         /\ run.pc # "replan" )
       => (ConvergenceError
             <=> \E k \in 1..N : Replanned(k).value.operation # "noop")
    /\ ConvergenceError =>
         /\ (2 + 3 * N) \in DOMAIN calls
         /\ \A k \in 1..N : Replanned(k).state = "resolved"
         /\ run.error.json =
              SelectSeq([k \in 1..N |-> Replanned(k).value],
                        LAMBDA p : p.operation # "noop")
         /\ Len(calls) = 2 + 3 * N

C9_Witness ==
  /\ run.op = "fullTest"
  /\ N = 2
  /\ ConvergenceError
  /\ Len(run.error.json) = 2

\* C10: uninstall first plans every config from its state (desired
\* undefined, state the config, isStateful true); an apply is sent only
\* for a plan that says DESTROY; a plan that says anything else makes
\* uninstall fail and no apply is sent for it.
U0 == IF run.op = "fullTest" THEN 2 + 4 * N ELSE 0

UN == Len(run.uConfigs)

DestroyPlan(k) == calls[U0 + k]

DestroyMismatch ==
  /\ run.outcome = "rejected"
  /\ run.error.message = "Expect resource operation to be 'destory'"

C10_DestroyOnly ==
  /\ \A k \in 1..UN :
       (U0 + k) \in DOMAIN calls =>
         /\ DestroyPlan(k).cmd = <<"plan">>
         /\ DestroyPlan(k).data =
              [desired |-> [t |-> "undefined"], isStateful |-> TRUE,
               state |-> run.uConfigs[k]]
  /\ \A k \in 1..UN :
       (U0 + UN + k) \in DOMAIN calls =>
         /\ calls[U0 + UN + k].cmd = <<"apply">>
         /\ \A p \in 1..UN : AnsweredBefore(U0 + p, U0 + UN + k)
         /\ DestroyPlan(k).value.operation = "destroy"
         /\ calls[U0 + UN + k].data = [planId |-> DestroyPlan(k).value.planId]
  /\ \A k \in 1..UN :
       ( /\ (U0 + UN) \in DOMAIN calls
         /\ \A p \in 1..UN : DestroyPlan(p).state = "resolved"
         /\ DestroyPlan(k).value.operation # "destroy" )
       => /\ run.outcome # "resolved"
          /\ (U0 + UN + k) \notin DOMAIN calls
          /\ ( /\ \A p \in 1..(k - 1) :
                    DestroyPlan(p).value.operation = "destroy"
               /\ run.pc # "uPlan"
               /\ (k > 1 => /\ calls[U0 + UN + k - 1].state = "resolved"
                            /\ run.await # U0 + UN + k - 1) )
             => (DestroyMismatch /\ run.error.json = DestroyPlan(k).value)

C10_Witness ==
  /\ run.op = "uninstall"
  /\ UN = 2
  /\ DestroyMismatch
  /\ DestroyPlan(1).value.operation = "destroy"
  /\ DestroyPlan(2).value.operation = "noop"
  /\ Len(calls) = UN + 1
  /\ calls[UN + 1].cmd = <<"apply">>

\* the function is past the await of request a
Resumed(a) ==
  /\ a \in DOMAIN calls
  /\ calls[a].state # "pending"
  /\ (run.pc = "done" \/ run.await # a)

\* the verification plans of uninstall follow the n plans and the n applies
VerifyPlan(k) == calls[U0 + 2 * UN + k]

DestroyVerifyError ==
  /\ run.outcome = "rejected"
  /\ run.error.message = "Resource was not successfully destroyed."

\* C11: in uninstall the verification plan of a config (the config as
\* desired state, no state, isStateful true) is requested once every
\* destroy plan was applied successfully and the verifications before it
\* said CREATE; uninstall completes only if every verification said CREATE,
\* and the first one that says anything else makes it fail with the
\* destroy-verification error, no further request being sent.
C11_DestroyVerified ==
  /\ \A k \in 1..UN :
       (U0 + 2 * UN + k) \in DOMAIN calls =>
         /\ VerifyPlan(k).cmd = <<"plan">>
         /\ VerifyPlan(k).data =
              [desired |-> run.uConfigs[k], isStateful |-> TRUE,
               state |-> [t |-> "undefined"]]
         /\ \A p \in 1..UN :
              /\ DestroyPlan(p).value.operation = "destroy"
              /\ AnsweredBefore(U0 + UN + p, U0 + 2 * UN + k)
         /\ \A p \in 1..(k - 1) :
              /\ VerifyPlan(p).state = "resolved"
              /\ VerifyPlan(p).value.operation = "create"
  /\ (run.outcome = "resolved" /\ UN > 0) =>
       /\ Len(calls) = U0 + 3 * UN
       /\ \A k \in 1..UN :
            /\ VerifyPlan(k).state = "resolved"
            /\ VerifyPlan(k).value.operation = "create"
  /\ \A k \in 1..UN :
       ( /\ (U0 + 2 * UN + k) \in DOMAIN calls
         /\ VerifyPlan(k).state = "resolved"
         /\ VerifyPlan(k).value.operation # "create" )
       => /\ Len(calls) = U0 + 2 * UN + k
          /\ run.outcome # "resolved"
          /\ Resumed(U0 + 2 * UN + k) =>
               (DestroyVerifyError /\ run.error.json = VerifyPlan(k).value)
  /\ DestroyVerifyError =>
       /\ Len(calls) > U0 + 2 * UN
       /\ calls[Len(calls)].state = "resolved"
       /\ calls[Len(calls)].value.operation # "create"

C11_Witness ==
  /\ run.op = "uninstall"
  /\ UN = 2
  /\ DestroyVerifyError
  /\ Len(calls) = 3 * UN
  /\ VerifyPlan(1).value.operation = "create"
  /\ VerifyPlan(2).value.operation = "noop"

\* C12: in fullTest the uninstall works on the configs in reverse input
\* order (the k-th destroy plan is for config n+1-k) while the configs of
\* the caller keep the order the first plans were made in; fullTest with
\* skipUninstall not set completes only after the uninstall, and with
\* skipUninstall set no request follows the n imports.
C12_UninstallsReversed ==
  run.op = "fullTest" =>
    /\ \A k \in 1..N :
         (2 + k) \in DOMAIN calls => run.configs[k] = calls[2 + k].data.desired
    /\ \A k \in 1..UN :
         (U0 + k) \in DOMAIN calls =>
           /\ UN = N
           /\ calls[U0 + k].cmd = <<"plan">>
           /\ calls[U0 + k].data.desired = [t |-> "undefined"]
           /\ calls[U0 + k].data.state = calls[2 + (N + 1 - k)].data.desired
    /\ Len(calls) > 2 + 4 * N => ~run.options.skipUninstall
    /\ (run.outcome = "resolved" /\ ~run.options.skipUninstall) =>
         Len(calls) = 2 + 7 * N
    /\ (run.outcome = "resolved" /\ run.options.skipUninstall) =>
         (Len(calls) = 2 + 4 * N /\ calls[Len(calls)].cmd = <<"import">>)

C12_Witness ==
  /\ run.op = "fullTest"
  /\ N = 2
  /\ ~run.options.skipUninstall
  /\ Len(calls) >= U0 + 2
  /\ calls[U0 + 1].data.state.type # calls[U0 + 2].data.state.type
  /\ calls[U0 + 1].data.state = run.configs[2]

\* the imports of fullTest follow the n plans, n applies and n re-plans
Imported(k) == calls[2 + 3 * N + k]

ImportMismatchError ==
  /\ run.outcome = "rejected"
  /\ run.error.message = "The following imports were not successful."

\* two values differ: their types or their contents do
ValueDiffers(a, b) ==
  IF a.t = "object" /\ b.t = "object" THEN a.o # b.o ELSE a # b

\* the import of config k does not contain exactly one record, or a field
\* of the config differs from the same field of that record
Mismatching(k) ==
  LET result == Imported(k).value.result IN
    \/ Len(result) # 1
    \/ \E f \in DOMAIN run.configs[k] :
         \/ f \notin DOMAIN result[1]
         \/ ValueDiffers(result[1][f], run.configs[k][f])

\* C13: the imports are requested for the configs in input order; once all
\* n are back, fullTest fails with the import-mismatch error exactly if some
\* config mismatches, and the error lists the results of all mismatching
\* configs.
C13_ImportMismatch ==
  run.op = "fullTest" =>
    /\ \A k \in 1..N :
         (2 + 3 * N + k) \in DOMAIN calls =>
           /\ Imported(k).cmd = <<"import">>
           /\ Imported(k).data = [config |-> run.configs[k]]
    /\ ( /\ Resumed(2 + 4 * N)
         /\ \A k \in 1..N : Imported(k).state = "resolved" )
       => /\ ImportMismatchError <=> \E k \in 1..N : Mismatching(k)
          /\ ImportMismatchError =>
               run.error.json =
                 SelectSeq([k \in 1..N |-> Imported(k).value],
                           LAMBDA res :
                             \E k \in 1..N :
                               Imported(k).value = res /\ Mismatching(k))
    /\ ImportMismatchError => Len(calls) = 2 + 4 * N

UnsupportedError ==
  /\ run.outcome = "rejected"
  /\ run.error.message =
       "The plugin does not support the following configs supplied:"

\* the types of the resources that the initialize response declares
DeclaredTypes ==
  {calls[1].value.resourceDefinitions[k].type :
     k \in DOMAIN calls[1].value.resourceDefinitions}

\* C14: once the initialize response is in, fullTest fails with the
\* unsupported-config error exactly if some config has a type that the
\* response does not declare; the error lists all those configs, and
\* initialize is then the only request that was sent.
C14_Unsupported ==
  (run.op = "fullTest" /\ Resumed(1) /\ calls[1].state = "resolved") =>
    /\ UnsupportedError
         <=> \E k \in 1..N : run.configs[k].type \notin DeclaredTypes
    /\ UnsupportedError =>
         /\ run.error.json =
              SelectSeq(run.configs, LAMBDA c : c.type \notin DeclaredTypes)
         /\ Len(calls) = 1

C14_Witness ==
  /\ run.op = "fullTest"
  /\ N = 2
  /\ UnsupportedError
  /\ Len(run.error.json) = 1
  /\ calls[1].value.resourceDefinitions # <<>>

ValidationError ==
  /\ run.outcome = "rejected"
  /\ run.error.message = "The following configs did not validate:"

\* C15: the second request of fullTest is a validate of all configs
\* together and no other request is a validate; once its response is in,
\* fullTest fails with the validation error exactly if some result is not
\* valid; the error lists all such results and no plan was requested.
C15_ValidatesOnce ==
  run.op = "fullTest" =>
    /\ \A i \in DOMAIN calls :
         calls[i].cmd = <<"validate">> <=> i = 2
    /\ 2 \in DOMAIN calls => calls[2].data = [configs |-> run.configs]
    /\ (Resumed(2) /\ calls[2].state = "resolved") =>
         LET validations == calls[2].value.resourceValidations IN
           /\ ValidationError
                <=> \E k \in DOMAIN validations : ~validations[k].isValid
           /\ ValidationError =>
                /\ run.error.json =
                     SelectSeq(validations, LAMBDA v : v.isValid = FALSE)
                /\ Len(calls) = 2
    /\ ValidationError => Resumed(2)

C15_Witness ==
  /\ run.op = "fullTest"
  /\ N = 2
  /\ ValidationError
  /\ Len(run.error.json) = 2
  /\ Len(calls) = 2

\* a worker whose refresh always reports the same values and never errors:
\* it declares the types of the configs, finds them valid, answers NOOP to
\* every plan of a desired config and DESTROY to every plan of a state to
\* remove, imports what it was asked for, and emits nothing else
StableWorker ==
  /\ \A j \in DOMAIN inbound :
       /\ Status(inbound[j]) = SUCCESS
       /\ \E i \in DOMAIN calls : inbound[j].cmd = Expected(calls[i])
  /\ \A i \in DOMAIN calls :
       calls[i].state = "resolved" =>
         CASE calls[i].cmd = <<"initialize">> ->
                \A k \in 1..N : run.configs[k].type \in DeclaredTypes
           [] calls[i].cmd = <<"validate">> ->
                \A k \in DOMAIN calls[i].value.resourceValidations :
                  calls[i].value.resourceValidations[k].isValid
           [] calls[i].cmd = <<"plan">> ->
                calls[i].value.operation =
                  (IF calls[i].data.desired = [t |-> "undefined"]
                   THEN "destroy" ELSE "noop")
           [] calls[i].cmd = <<"import">> ->
                /\ Len(calls[i].value.result) = 1
                /\ \A f \in DOMAIN calls[i].data.config :
                     ~ValueDiffers(calls[i].value.result[1][f],
                                   calls[i].data.config[f])
           [] OTHER -> TRUE

\* C16: with such a worker, fullTest called with default options on configs
\* of plain fields does not throw: when it is done, it has completed.
C16_StableCompletes ==
  ( /\ run.op = "fullTest"
    /\ run.options = Options(FALSE, FALSE)
    /\ \A k \in 1..N : \A f \in DOMAIN run.configs[k] :
         run.configs[k][f].t # "object"
    /\ StableWorker
    /\ run.pc = "done" )
  => run.outcome = "resolved"

(***************************************************************************)
(* Properties of the relay, checked under SpecSudo.                        *)
(***************************************************************************)
\* the response that the relay sent for process p
ResponsesOf(p) == {n \in DOMAIN sent : sent[n].by = -p}

\* the chunks 1..n of an output, one after the other
RECURSIVE ConcatUpTo(_, _)
ConcatUpTo(output, n) ==
  IF n = 0 THEN <<>> ELSE ConcatUpTo(output, n - 1) \o output[n]

\* C17: a response is sent for a process exactly when it has closed; its
\* status is SUCCESS exactly if the exit code is zero and ERROR otherwise,
\* and its data is the concatenation, in arrival order, of all chunks the
\* process produced, whatever the status.
C17_SudoResult ==
  \A p \in DOMAIN sudoProcs :
    /\ Cardinality(ResponsesOf(p)) = (IF sudoProcs[p].closed THEN 1 ELSE 0)
    /\ \A n \in ResponsesOf(p) :
         /\ sent[n].msg.cmd = <<"sudoRequest", "_Response">>
         /\ sent[n].msg.data.status = "success" <=> sudoProcs[p].exit = <<0>>
         /\ sent[n].msg.data.status = "error" <=> sudoProcs[p].exit # <<0>>
         /\ sent[n].msg.data.data =
              ConcatUpTo(sudoProcs[p].output, Len(sudoProcs[p].output))

C17_Witness ==
  \E p \in DOMAIN sudoProcs : \E n \in ResponsesOf(p) :
    /\ sudoProcs[p].exit = <<1>>
    /\ sudoProcs[p].output = <<<<"ok">>, <<"not permitted">>>>
    /\ sent[n].msg.data = [status |-> "error",
                           data |-> <<"ok", "not permitted">>]

\* C18: a process that fails to start raises no error in the harness, and
\* the relay answers its request with a result of status ERROR.
C18_SpawnFailureContained ==
  \A p \in DOMAIN sudoProcs :
    sudoProcs[p].failed =>
      /\ uncaught = 0
      /\ unhandled = 0
      /\ \E n \in ResponsesOf(p) : sent[n].msg.data.status = "error"

\* the options without those that the relay is to fix
Passed(opts) ==
  [k \in DOMAIN opts \ {"detached", "shell", "stdio"} |-> opts[k]]

\* C19: the options that spawn is called with depend on the options of the
\* request only through the options other than detached, shell and stdio
\* (two requests that agree on those are spawned with the same options), and
\* every other option of the request is passed on as it is.
C19_OptionsForced ==
  \A p, q \in DOMAIN sudoProcs :
    /\ Passed(sudoProcs[p].opts) = Passed(sudoProcs[q].opts)
         => sudoProcs[p].options = sudoProcs[q].options
    /\ \A k \in DOMAIN Passed(sudoProcs[p].opts) :
         /\ k \in DOMAIN sudoProcs[p].options
         /\ sudoProcs[p].options[k] = sudoProcs[p].opts[k]

(***************************************************************************)
(* Properties of kill, checked under SpecKill.                             *)
(***************************************************************************)
\* C20: a request made after kill() is rejected by the time the call
\* returns, and its message is not delivered to the worker.
C20_FailsAfterKill ==
  [][(killed /\ Len(calls') = Len(calls) + 1) =>
       /\ calls'[Len(calls')].state = "rejected"
       /\ ~sent'[Len(sent')].delivered]_vars

(***************************************************************************)
(* Further properties of the correlator (under Spec), of fullTest and      *)
(* uninstall (under SpecComposite) and of the relay (under SpecSudo).      *)
(***************************************************************************)
\* message j, which fails the envelope schema, arrived while call c had no
\* response yet
InvalidWhilePending(c, j) ==
  /\ j \in After(c)
  /\ ~ipcMessageValidator(inbound[j])
  /\ \A k \in After(c) : k < j => ~IsResponse(c, k)

\* C21: a call that was pending when a message failing the envelope schema
\* arrived is rejected, and the composite operation awaiting it sends no
\* request after it.
C21_InvalidMessageFails ==
  \A i \in DOMAIN calls : \A j \in After(calls[i]) :
    InvalidWhilePending(calls[i], j) =>
      /\ calls[i].state = "rejected"
      /\ Len(calls) = i

\* the number of requests sent by the time callback name is called
CallsAt(name) ==
  CASE name = "validatePlan" -> 2 + N
    [] name = "validateApply" -> 2 + 3 * N
    [] name = "validateImport" -> 2 + 4 * N
    [] name = "validateDestroy" -> U0 + 3 * UN

CheckErrors ==
  {"The plugin does not support the following configs supplied:",
   "The following configs did not validate:",
   "The following applies were not successful.",
   "The following imports were not successful.",
   "Expect resource operation to be 'destory'",
   "Resource was not successfully destroyed."}

\* C22: a request that got an ERROR response is the last request of the
\* run, and the run, once resumed, is rejected with its error; a callback
\* that threw is followed by no request and the run is rejected with what
\* it threw; a run rejected by one of the checks has its last request
\* answered and sends nothing more: a rejected run is done and awaits
\* nothing.
C22_FailureStops ==
  /\ \A i \in DOMAIN calls :
       calls[i].state = "rejected" =>
         /\ Len(calls) = i
         /\ Resumed(i) => (run.outcome = "rejected"
                           /\ run.error = calls[i].value)
  /\ \A q \in DOMAIN run.callbacks :
       run.callbacks[q].state = "threw" =>
         /\ q = Len(run.callbacks)
         /\ run.outcome = "rejected"
         /\ run.error = [t |-> "Error", message |-> "assertion failed"]
         /\ Len(calls) = CallsAt(run.callbacks[q].name)
  /\ run.outcome = "rejected" =>
       /\ run.pc = "done"
       /\ \A i \in DOMAIN calls : calls[i].state # "pending"
       /\ run.error.message \in CheckErrors =>
            calls[Len(calls)].state = "resolved"

C22_Witness ==
  /\ run.op = "fullTest"
  /\ N = 2
  /\ run.outcome = "rejected"
  /\ Len(run.callbacks) = 2
  /\ run.callbacks[2].name = "validateApply"
  /\ run.callbacks[2].state = "threw"
  /\ Len(calls) = 2 + 3 * N

\* the listeners of the requests, the relay apart
CorrelatorListeners ==
  {k \in DOMAIN listeners : listeners[k].kind = "correlator"}

\* C23: the listener of a request whose response has arrived is no longer
\* registered: the number of listeners of requests is the number of
\* pending requests.
C23_ListenersRetired ==
  Cardinality(CorrelatorListeners)
    = Cardinality({i \in DOMAIN calls : calls[i].state = "pending"})

\* C24: a call is settled by the first correlated response that arrived
\* after it was issued and by nothing else: without such a response it is
\* pending, whatever arrived before it was issued, and with one its outcome
\* is that of the first, whatever same-named responses arrived later.
C24_SettledOnce ==
  \A i \in DOMAIN calls :
    /\ (\A j \in After(calls[i]) : ~IsResponse(calls[i], j))
         => calls[i].state = "pending"
    /\ calls[i].state # "pending" =>
         \E j \in After(calls[i]) :
           /\ IsFirstResponse(calls[i], j)
           /\ calls[i].state = "resolved" <=> inbound[j].status = "success"
           /\ calls[i].state = "rejected" <=> inbound[j].status = "error"
           /\ calls[i].value =
                (IF inbound[j].status = "success" THEN inbound[j].data
                 ELSE [t |-> "Error", message |-> String(inbound[j].data)])

C24_Witness ==
  \E i, i2 \in DOMAIN calls : \E j, k \in After(calls[i]) :
    /\ IsFirstResponse(calls[i], j)
    /\ inbound[j].status = "error"
    /\ j < k
    /\ IsResponse(calls[i], k)
    /\ inbound[k].status = "success"
    /\ calls[i].state = "rejected"
    /\ i < i2
    /\ calls[i2].cmd = calls[i].cmd
    /\ calls[i2].issuedAt >= k
    /\ calls[i2].state = "pending"

\* C25: the error of a destroy mismatch carries every destroy plan that is
\* not DESTROY, and the error of a failed verification carries every
\* verification plan, of all configs, that is not CREATE.
C25_FullOffendingSet ==
  /\ DestroyMismatch =>
       \A k \in 1..UN :
         DestroyPlan(k).value.operation # "destroy"
           => run.error.json = DestroyPlan(k).value
  /\ DestroyVerifyError =>
       /\ Len(calls) = U0 + 3 * UN
       /\ \A k \in 1..UN :
            VerifyPlan(k).value.operation # "create"
              => run.error.json = VerifyPlan(k).value

Pending == {i \in DOMAIN calls : calls[i].state = "pending"}

\* C26: in a run of fullTest or uninstall at most one request is pending,
\* it is the last one sent and the one the run awaits, and every request
\* but the first was sent after the response to the one before had
\* arrived.
C26_OneAtATime ==
  /\ Cardinality(Pending) <= 1
  /\ \A i \in Pending : i = Len(calls) /\ run.await = i
  /\ \A i \in DOMAIN calls :
       i > 1 =>
         \E j \in (calls[i - 1].issuedAt + 1)..calls[i].issuedAt :
           IsResponse(calls[i - 1], j)

C26_Witness ==
  /\ run.op = "fullTest"
  /\ N = 2
  /\ Len(calls) = 2 + 2 * N
  /\ Pending = {2 + 2 * N}
  /\ Len(inbound) > Len(calls) - 1

\* C27: a process is spawned for every valid SUDO_REQUEST and for no other
\* message; the relay sends one SUDO_REQUEST_Response for every process
\* that has ended, none for a process that still runs and nothing else;
\* the response carries the output of its own process.
C27_OneResponseEach ==
  /\ Len(sudoProcs) = SudoRequestsUpTo(Len(inbound))
  /\ \A n \in DOMAIN sent :
       /\ sent[n].by < 0
       /\ -sent[n].by \in DOMAIN sudoProcs
       /\ sent[n].msg.cmd = <<"sudoRequest", "_Response">>
  /\ \A p \in DOMAIN sudoProcs :
       /\ Cardinality(ResponsesOf(p)) =
            (IF sudoProcs[p].closed \/ sudoProcs[p].failed THEN 1 ELSE 0)
       /\ \A n \in ResponsesOf(p) :
            sent[n].msg.data.data =
              ConcatUpTo(sudoProcs[p].output, Len(sudoProcs[p].output))

====
